---- MODULE Spec2Model ----
(***************************************************************************)
(* A model of the safe Malbolge interpreter                                *)
(* (src/src/interpreter/safe_malbolge.py): Tryte arithmetic, the crazy and *)
(* rotation operators, the instruction decoder, the bounds-checked memory, *)
(* and the machine's load / step / run.                                    *)
(*                                                                         *)
(* The word width is scaled: a Tryte has NTrits trits instead of 10, so    *)
(* the memory has 3^NTrits cells instead of 59049.  NTrits is at least 6,  *)
(* so that every printable code point (33..126) is a Tryte value and the   *)
(* accumulator can exceed 255, the largest character code.                 *)
(* Characters are modelled by their code points, a text by a sequence of   *)
(* code points.                                                            *)
(***************************************************************************)
EXTENDS Integers, Sequences, FiniteSets, TLC

\* Bounds of the model.
NTrits == 6
MaxFuel == 5
MaxLoads == 2
\* The stored values handed to the decoder directly are 0..MaxCode.
MaxCode == 200
\* A SafeMemory object used directly receives at most MaxOps calls.
MaxOps == 3
\* An IR program handed to the compiler has at most MaxIR instructions.
MaxIR == 3

\* ------------------------------------------------------------------------
\* Tryte arithmetic
\* ------------------------------------------------------------------------
SIZE == 3 ^ NTrits
MAX_VALUE == SIZE - 1

Tryte(n) == n % (MAX_VALUE + 1)

to_trits(v) == [i \in 1..NTrits |-> (v \div (3 ^ (i - 1))) % 3]

RECURSIVE trit_sum(_, _)
trit_sum(trits, n) ==
  IF n = 0 THEN 0 ELSE trits[n] * (3 ^ (n - 1)) + trit_sum(trits, n - 1)

from_trits(trits) ==
  Tryte(trit_sum(trits, IF Len(trits) < NTrits THEN Len(trits) ELSE NTrits))

\* An addition that stops at the largest value.
tryte_add_saturating(x, y) == IF x + y > MAX_VALUE THEN MAX_VALUE ELSE x + y

tryte_add(x, y) == Tryte((x + y) % (MAX_VALUE + 1))

\* ------------------------------------------------------------------------
\* The crazy operation and the rotation
\* ------------------------------------------------------------------------
CRAZY_TABLE == << <<1, 0, 0>>, <<1, 0, 2>>, <<2, 2, 1>> >>

crazy_trit(x, y) == CRAZY_TABLE[x + 1][y + 1]

crazy(x, y) ==
  LET a_trits == to_trits(x)
      b_trits == to_trits(y)
  IN  from_trits([i \in 1..NTrits |-> crazy_trit(a_trits[i], b_trits[i])])

\* A rotation in the other direction.
rotate_left(t) ==
  LET trits == to_trits(t)
  IN  from_trits(SubSeq(trits, 2, NTrits) \o <<trits[1]>>)

rotate_right(t) ==
  LET trits == to_trits(t)
  IN  from_trits(<<trits[NTrits]>> \o SubSeq(trits, 1, NTrits - 1))

\* ------------------------------------------------------------------------
\* Instruction decryption
\* ------------------------------------------------------------------------
instructions == <<"j", "i", "*", "p", "<", "/", "v", "o">>

Ok(v) == [ok |-> TRUE, val |-> v]
Err(e) == [ok |-> FALSE, val |-> e]

\* A decoder that silently coerces an invalid code point to a no-op.
decrypt_instruction_coercing(code, position) ==
  LET decrypted == (code - 33 + position) % 94
  IN  IF code >= 33 /\ code <= 126 /\ decrypted < Len(instructions)
      THEN Ok(instructions[(decrypted % Len(instructions)) + 1])
      ELSE Ok("nop")

\* A decoder that forgets the position.
decrypt_instruction_unpositioned(code, position) ==
  IF code < 33 \/ code > 126
  THEN Err("Invalid code point")
  ELSE LET decrypted == (code - 33) % 94
       IN  IF decrypted < Len(instructions)
           THEN Ok(instructions[(decrypted % Len(instructions)) + 1])
           ELSE Ok("nop")

decrypt_instruction(code, position) ==
  IF code < 33 \/ code > 126
  THEN Err("Invalid code point")
  ELSE LET decrypted == (code - 33 + position) % 94
       IN  IF decrypted < Len(instructions)
           THEN Ok(instructions[(decrypted % Len(instructions)) + 1])
           ELSE Ok("nop")

\* ------------------------------------------------------------------------
\* Safe memory: a function from 0..SIZE-1 to Trytes
\* ------------------------------------------------------------------------
new_memory == [i \in 0..(SIZE - 1) |-> Tryte(0)]

\* A checked read whose lower limit is off by one.
read_above_zero(mem, addr) ==
  IF 0 < addr /\ addr < SIZE THEN Ok(mem[addr]) ELSE Err("Memory read out of bounds")

read(mem, addr) ==
  IF 0 <= addr /\ addr < SIZE THEN Ok(mem[addr]) ELSE Err("Memory read out of bounds")

\* A checked write that wraps the address, as write_unsafe does.
write_wrapping(mem, addr, value) ==
  [mem |-> [mem EXCEPT ![addr % SIZE] = value], res |-> Ok("None")]

\* The memory after the call, and the Result returned.
write(mem, addr, value) ==
  IF 0 <= addr /\ addr < SIZE
  THEN [mem |-> [mem EXCEPT ![addr] = value], res |-> Ok("None")]
  ELSE [mem |-> mem, res |-> Err("Memory write out of bounds")]

read_unsafe(mem, addr) == mem[addr % SIZE]

write_unsafe(mem, addr, value) == [mem EXCEPT ![addr % SIZE] = value]

\* ------------------------------------------------------------------------
\* The machine
\* ------------------------------------------------------------------------
new_state ==
  [a |-> Tryte(0), c |-> Tryte(0), d |-> Tryte(0), memory |-> new_memory,
   output |-> <<>>, halted |-> FALSE, cycles |-> 0]

\* Code points for which str.isspace() is true (those below 256).
WHITESPACE == {9, 10, 11, 12, 13, 28, 29, 30, 31, 32, 133, 160}

isspace(ch) == ch \in WHITESPACE

\* code = [c for c in program if not c.isspace()]
strip(program) == SelectSeq(program, LAMBDA ch : ~isspace(ch))

\* The range test with its upper limit off by one.
invalid_char_off_by_one(code_point) == code_point < 33 \/ code_point > 127

invalid_char(code_point) == code_point < 33 \/ code_point > 126

\* The 1-based indices of the characters the validation loop rejects.
invalid_positions(code) == {i \in 1..Len(code) : invalid_char(code[i])}

\* The validation loop's writes: cells 0..n-1 receive the first n characters.
write_chars(mem, code, n) ==
  [j \in 0..(SIZE - 1) |-> IF j < n THEN Tryte(code[j + 1]) ELSE mem[j]]

\* The initialisation with the operands of crazy exchanged.
fill_cell_swapped(mem, i) ==
  write_unsafe(mem, i, crazy(read_unsafe(mem, i - 2), read_unsafe(mem, i - 1)))

\* One iteration of the initialisation loop, at address i.
fill_cell(mem, i) ==
  write_unsafe(mem, i, crazy(read_unsafe(mem, i - 1), read_unsafe(mem, i - 2)))

\* for i in range(lo, hi): fill_cell.  The range is split in two halves that
\* run one after the other, which keeps the evaluation depth logarithmic; the
\* test on DOMAIN makes the first half's result available to the second.
RECURSIVE fill_loop(_, _, _)
fill_loop(mem, lo, hi) ==
  IF hi <= lo THEN mem
  ELSE IF hi = lo + 1 THEN fill_cell(mem, lo)
  ELSE LET mid == (lo + hi) \div 2
           first == fill_loop(mem, lo, mid)
       IN  IF DOMAIN first = DOMAIN mem THEN fill_loop(first, mid, hi) ELSE first

LoadRes(kind, pos, val) == [kind |-> kind, pos |-> pos, val |-> val]

load(s, program) ==
  LET code == strip(program)
      bad == invalid_positions(code)
  IN  IF Len(code) > SIZE
      THEN [state |-> s, res |-> LoadRes("too_large", Len(code), <<>>)]
      ELSE IF bad # {}
      THEN LET k == CHOOSE i \in bad : \A j \in bad : i <= j
           IN  [state |-> [s EXCEPT !.memory = write_chars(s.memory, code, k - 1)],
                res |-> LoadRes("invalid_char", k - 1, <<code[k]>>)]
      ELSE [state |-> [s EXCEPT !.memory =
                         fill_loop(write_chars(s.memory, code, Len(code)),
                                   Len(code), SIZE)],
            res |-> LoadRes("ok", 0, <<>>)]

\* --- step ---------------------------------------------------------------
\* Increment pointers (the trailing increment) and report "continue".
\* A trailing increment that lets the pointers run past the last address.
increment_unwrapped(s) ==
  [state |-> [s EXCEPT !.c = s.c + 1, !.d = s.d + 1, !.cycles = s.cycles + 1],
   res |-> Ok(TRUE)]

increment(s) ==
  [state |-> [s EXCEPT !.c = tryte_add(s.c, Tryte(1)),
                       !.d = tryte_add(s.d, Tryte(1)),
                       !.cycles = s.cycles + 1],
   res |-> Ok(TRUE)]

exec_j(s) ==
  LET mem_result == read(s.memory, s.d)
  IN  IF mem_result.ok THEN increment([s EXCEPT !.d = mem_result.val])
      ELSE increment(s)

\* A jump followed by the trailing increment.
exec_i_incrementing(s) ==
  LET mem_result == read(s.memory, s.d)
  IN  IF mem_result.ok THEN increment([s EXCEPT !.c = mem_result.val])
      ELSE increment(s)

exec_i(s) ==
  LET mem_result == read(s.memory, s.d)
  IN  IF mem_result.ok
      THEN [state |-> [s EXCEPT !.c = mem_result.val], res |-> Ok(TRUE)]
      ELSE increment(s)

exec_rotate(s) ==
  LET mem_result == read(s.memory, s.d)
  IN  IF mem_result.ok
      THEN LET rotated == rotate_right(mem_result.val)
           IN  increment([s EXCEPT !.memory = write_unsafe(s.memory, s.d, rotated),
                                   !.a = rotated])
      ELSE increment(s)

\* A crazy-op with the accumulator as first operand.
exec_crazy_swapped(s) ==
  LET mem_result == read(s.memory, s.d)
  IN  IF mem_result.ok
      THEN LET r == crazy(s.a, mem_result.val)
           IN  increment([s EXCEPT !.memory = write_unsafe(s.memory, s.d, r),
                                   !.a = r])
      ELSE increment(s)

exec_crazy(s) ==
  LET mem_result == read(s.memory, s.d)
  IN  IF mem_result.ok
      THEN LET r == crazy(mem_result.val, s.a)
           IN  increment([s EXCEPT !.memory = write_unsafe(s.memory, s.d, r),
                                   !.a = r])
      ELSE increment(s)

\* An output that appends the accumulator as it is.
exec_output_unreduced(s) ==
  increment([s EXCEPT !.output = Append(s.output, s.a)])

exec_output(s) ==
  LET char_code == s.a % 256
  IN  increment([s EXCEPT !.output = Append(s.output, char_code)])

\* A halt that still runs the trailing increment.
exec_halt_incrementing(s) ==
  [state |-> [increment(s).state EXCEPT !.halted = TRUE], res |-> Ok(FALSE)]

exec_halt(s) == [state |-> [s EXCEPT !.halted = TRUE], res |-> Ok(FALSE)]

execute(s, op) ==
  CASE op = "j" -> exec_j(s)
    [] op = "i" -> exec_i(s)
    [] op = "*" -> exec_rotate(s)
    [] op = "p" -> exec_crazy(s)
    [] op = "<" -> exec_output(s)
    [] op = "/" -> increment(s)
    [] op = "v" -> exec_halt(s)
    [] op = "o" -> increment(s)
    [] OTHER -> increment(s)

\* The opcode the next step decodes: Ok(op), or Err when fetch or decode fails.
fetch_decode(s) ==
  LET c_val == s.c
      instr_result == read(s.memory, c_val)
  IN  IF ~instr_result.ok THEN Err("Failed to fetch instruction")
      ELSE LET decrypt_result == decrypt_instruction(instr_result.val, c_val)
           IN  IF ~decrypt_result.ok THEN Err("Failed to decrypt")
               ELSE decrypt_result

\* A step that also sets halted when the fetch or the decoding fails.
step_halting_on_error(s) ==
  IF s.halted THEN [state |-> s, res |-> Ok(FALSE)]
  ELSE LET fd == fetch_decode(s)
       IN  IF ~fd.ok THEN [state |-> [s EXCEPT !.halted = TRUE], res |-> fd]
           ELSE execute(s, fd.val)

step(s) ==
  IF s.halted THEN [state |-> s, res |-> Ok(FALSE)]
  ELSE LET fd == fetch_decode(s)
       IN  IF ~fd.ok THEN [state |-> s, res |-> fd]
           ELSE execute(s, fd.val)

\* --- run ----------------------------------------------------------------
\* The step counter of a run saturates here.
StepCap == MaxFuel + 2

Saturate(n) == IF n < StepCap THEN n ELSE StepCap

Res(op, kind, pos, val, msg) ==
  [op |-> op, kind |-> kind, pos |-> pos, val |-> val, msg |-> msg]

\* The loop test with <= for <.
loop_cond_inclusive(s, n) == s.cycles <= n

\* while self.state.cycles < max_cycles
loop_cond(s, n) == s.cycles < n

\* return Err(f"Execution error at cycle {self.state.cycles}: ...")
run_error(s, e) == Res("run", "exec_error", s.cycles, <<>>, e)

\* The limit test with > for >=.
run_return_off_by_one(s, n) ==
  IF s.cycles > n THEN Res("run", "limit", n, <<>>, "Execution limit exceeded")
  ELSE Res("run", "ok", 0, s.output, "")

\* The statements after the loop.
run_return(s, n) ==
  IF s.cycles >= n THEN Res("run", "limit", n, <<>>, "Execution limit exceeded")
  ELSE Res("run", "ok", 0, s.output, "")

\* run as a function of the machine state and the fuel limit: the machine
\* state at the return and the value returned.  k bounds the iterations that
\* are followed; a loop still going after k iterations is reported as running.
RECURSIVE run(_, _, _)
run(s, n, k) ==
  IF ~loop_cond(s, n) THEN [state |-> s, res |-> run_return(s, n)]
  ELSE IF k = 0 THEN [state |-> s, res |-> Res("run", "running", 0, <<>>, "")]
  ELSE LET r == step(s)
       IN  IF ~r.res.ok
           THEN [state |-> r.state, res |-> run_error(r.state, r.res.val)]
           ELSE IF ~r.res.val
           THEN [state |-> r.state, res |-> run_return(r.state, n)]
           ELSE run(r.state, n, k - 1)

get_output(s) == s.output

\* ------------------------------------------------------------------------
\* The compiler (src/src/compiler/compiler.py).  An IR instruction is a
\* record [op, args]; an IR program is a sequence of them.
\* ------------------------------------------------------------------------
Instruction(op, args) == [op |-> op, args |-> args]

instr_map(instr) ==
  CASE instr = "j" -> 0 [] instr = "i" -> 1 [] instr = "*" -> 2 [] instr = "p" -> 3
    [] instr = "<" -> 4 [] instr = "/" -> 5 [] instr = "v" -> 6 [] instr = "o" -> 7
    [] OTHER -> 7

\* code = (instr_idx - pos) % 94 + 33
encrypt_instruction(instr, pos) == ((instr_map(instr) - pos) % 94) + 33

\* The stub: no code is generated for a constant.
compile_const(value) == <<>>

\* code is self.code at the call; the character asked for is not used.
compile_output_char(code, char) == <<encrypt_instruction("<", Len(code))>>

compile_halt(code) == <<encrypt_instruction("v", Len(code))>>

\* One iteration of compile's loop: self.code after the instruction.
compile_instr(code, instr) ==
  CASE instr.op = "CONST" -> code \o compile_const(instr.args[1])
    [] instr.op = "OUTPUT" -> code \o compile_output_char(code, instr.args[1])
    [] instr.op = "HALT" -> code \o compile_halt(code)
    [] OTHER -> code

RECURSIVE compile_code(_, _)
compile_code(instrs, n) ==
  IF n = 0 THEN <<>> ELSE compile_instr(compile_code(instrs, n - 1), instrs[n])

compile(ir) ==
  Ok(SelectSeq(compile_code(ir, Len(ir)), LAMBDA c : 33 <= c /\ c <= 126))

\* The output of the IR program: its OUTPUT arguments up to the first HALT.
RECURSIVE simulate_ir(_, _)
simulate_ir(ir, i) ==
  IF i > Len(ir) \/ ir[i].op = "HALT" THEN <<>>
  ELSE IF ir[i].op = "OUTPUT" THEN <<ir[i].args[1]>> \o simulate_ir(ir, i + 1)
  ELSE simulate_ir(ir, i + 1)

\* vm.run(max_cycles=100000)
PROVER_FUEL == 100000

prove_output_equivalence(safe_program, malbolge_code) ==
  LET safe_output == simulate_ir(safe_program, 1)
      load_result == load(new_state, malbolge_code)
  IN  IF load_result.res.kind # "ok" THEN Err("Failed to load Malbolge")
      ELSE LET run_result == run(load_result.state, PROVER_FUEL, StepCap).res
           IN  IF run_result.kind # "ok" THEN Err("Malbolge execution failed")
               ELSE IF safe_output = run_result.val THEN Ok(TRUE)
               ELSE Err("Output mismatch")

\* ------------------------------------------------------------------------
\* Inputs: the program texts handed to load, as sequences of code points
\* ------------------------------------------------------------------------
Repeat(ch, n) == [i \in 1..n |-> ch]

\* the empty text
P_empty == <<>>
\* "'": halt at position 0
P_halt == <<39>>
\* '<' '/' 'o' nop 'v' at positions 0..4, with whitespace in between
P_out == <<37, 32, 37, 38, 10, 80, 35>>
\* 'i' at position 0 jumping to position 34, which holds 'i' again
P_iloop == <<34>> \o Repeat(33, 33) \o <<94>>
\* after a tab, '*' 'p' '<' 'j' at positions 0..3 and 'o' at every later
\* position of the memory: a program that never halts and never fails
P_full ==
  <<9, 35, 35, 35, 124>> \o [i \in 1..(SIZE - 4) |-> ((7 - (i + 3)) % 94) + 33]
\* a DEL at index 1 of the stripped text (index 2 of the text), then a NUL
P_invalid == <<37, 32, 127, 0>>
\* more than SIZE characters, the first of them invalid
P_too_large == <<127>> \o Repeat(33, SIZE)

Programs ==
  {P_empty, P_halt, P_out, P_iloop, P_full, P_invalid, P_too_large}

\* The fuel limit that takes a run once around the memory.
LongFuel == SIZE + 1

\* ------------------------------------------------------------------------
\* State
\*   state       the VMState of the machine
\*   pc          where the caller is: "idle" (between calls), inside run
\*               ("loop": at the loop test, "body": in the loop body,
\*               "after": past the loop), or "returned" (a call has returned)
\*   max_cycles  the fuel limit of the run in progress or just returned
\*   result      what the call that has just returned returned
\*   steps       calls of step made by the run in progress (saturating)
\*   hist        "new": constructed, nothing loaded; "fresh": loaded, no step
\*               made since construction; "used": a step has been made
\*   from_fresh  whether the run in progress started on a "fresh" machine
\*   loads       calls of load made on this machine (at most MaxLoads)
\*   program     the text handed to the last load on this machine
\*   state0      the machine state on entry to the run in progress
\*   call        a direct call of a library function or of a SafeMemory
\*               method, outside any machine: its arguments and what it
\*               returned
\* ------------------------------------------------------------------------
VARIABLES state, pc, max_cycles, result, steps, hist, from_fresh, loads,
          program, state0, call

vars ==
  <<state, pc, max_cycles, result, steps, hist, from_fresh, loads, program,
    state0, call>>

\* The variables of the machine and of its caller.
vm_vars ==
  <<state, pc, max_cycles, result, steps, hist, from_fresh, loads, program, state0>>

NoCall == [fn |-> "none"]

NoRes == Res("none", "", 0, <<>>, "")

Init ==
  /\ state = new_state
  /\ pc = "idle"
  /\ max_cycles = 0
  /\ result = NoRes
  /\ steps = 0
  /\ hist = "new"
  /\ from_fresh = FALSE
  /\ loads = 0
  /\ program = <<>>
  /\ state0 = new_state
  /\ call = NoCall

\* A constructor whose machines all share one output list.
New_sharing_output ==
  /\ pc = "idle"
  /\ state' = [new_state EXCEPT !.output = state.output]
  /\ hist' = "new"
  /\ loads' = 0
  /\ program' = <<>>
  /\ UNCHANGED <<pc, max_cycles, result, steps, from_fresh, state0, call>>

\* SafeMalbolge.new(): the caller replaces the machine by a new one.
New ==
  /\ pc = "idle"
  /\ state' = new_state
  /\ hist' = "new"
  /\ loads' = 0
  /\ program' = <<>>
  /\ UNCHANGED <<pc, max_cycles, result, steps, from_fresh, state0, call>>

Load(text) ==
  /\ pc = "idle"
  /\ loads < MaxLoads
  /\ loads' = loads + 1
  /\ pc' = "returned"
  /\ program' = text
  /\ \E r \in {load(state, text)} :
         /\ state' = r.state
         /\ result' = Res("load", r.res.kind, r.res.pos, r.res.val, "")
         /\ hist' = IF hist = "new" /\ r.res.kind = "ok" THEN "fresh"
                    ELSE IF hist = "fresh" /\ r.res.kind # "ok" THEN "new"
                    ELSE hist
  /\ UNCHANGED <<max_cycles, steps, from_fresh, state0, call>>

LoadAny == \E text \in Programs : Load(text)

StepRes(r) ==
  IF ~r.ok THEN Res("step", "error", 0, <<>>, r.val)
  ELSE IF r.val THEN Res("step", "continue", 0, <<>>, "")
  ELSE Res("step", "halted", 0, <<>>, "")

\* A caller's own call of step, outside run.
Step ==
  /\ pc = "idle"
  /\ state.cycles < MaxFuel
  /\ pc' = "returned"
  /\ \E r \in {step(state)} :
         /\ state' = r.state
         /\ result' = StepRes(r.res)
  /\ hist' = "used"
  /\ UNCHANGED <<max_cycles, steps, from_fresh, loads, program, state0, call>>

\* run(n) is entered.
RunStart(n) ==
  /\ pc = "idle"
  /\ pc' = "loop"
  /\ max_cycles' = n
  /\ steps' = 0
  /\ from_fresh' = (hist = "fresh")
  /\ state0' = state
  /\ UNCHANGED <<state, result, hist, loads, program, call>>

RunAny == \E n \in 0..MaxFuel : RunStart(n)

\* run(SIZE + 1), called on the freshly loaded program that never halts.
RunLong ==
  /\ hist = "fresh" /\ loads = 1 /\ program = P_full
  /\ RunStart(LongFuel)

\* The loop condition holds and the loop body is entered.
RunEnter ==
  /\ pc = "loop"
  /\ loop_cond(state, max_cycles)
  /\ pc' = "body"
  /\ UNCHANGED <<state, max_cycles, result, steps, hist, from_fresh, loads, program, state0, call>>

\* The loop body: step is called and its result examined.
RunStep ==
  /\ pc = "body"
  /\ \E r \in {step(state)} :
         /\ state' = r.state
         /\ IF ~r.res.ok
            THEN pc' = "returned" /\ result' = run_error(r.state, r.res.val)
            ELSE IF ~r.res.val
            THEN pc' = "after" /\ UNCHANGED result
            ELSE pc' = "loop" /\ UNCHANGED result
  /\ steps' = Saturate(steps + 1)
  /\ hist' = "used"
  /\ UNCHANGED <<max_cycles, from_fresh, loads, program, state0, call>>

\* The loop condition fails and the loop is left.
RunExit ==
  /\ pc = "loop"
  /\ ~loop_cond(state, max_cycles)
  /\ pc' = "after"
  /\ UNCHANGED <<state, max_cycles, result, steps, hist, from_fresh, loads, program, state0, call>>

\* The statements after the loop: run returns.
RunReturn ==
  /\ pc = "after"
  /\ pc' = "returned"
  /\ result' = run_return(state, max_cycles)
  /\ UNCHANGED <<state, max_cycles, steps, hist, from_fresh, loads, program, state0, call>>

\* The caller takes the returned value and goes on.
Resume ==
  /\ pc = "returned"
  /\ pc' = "idle"
  /\ result' = NoRes
  /\ max_cycles' = 0
  /\ steps' = 0
  /\ from_fresh' = FALSE
  /\ state0' = new_state
  /\ UNCHANGED <<state, hist, loads, program, call>>

Next ==
  \/ New
  \/ LoadAny
  \/ Step
  \/ RunAny
  \/ RunLong
  \/ RunEnter
  \/ RunStep
  \/ RunExit
  \/ RunReturn
  \/ Resume

Spec == Init /\ [][Next]_vars

\* run is a synchronous loop: once entered, it keeps executing until it returns.
FairSpec ==
  /\ Spec
  /\ WF_vars(RunEnter)
  /\ WF_vars(RunStep)
  /\ WF_vars(RunExit)
  /\ WF_vars(RunReturn)

\* ------------------------------------------------------------------------
\* Direct calls of the library: one function or one SafeMemory object is
\* exercised on its own, no machine being involved.
\* ------------------------------------------------------------------------
Codes == 0..MaxCode

Positions == 0..(SIZE - 1)

\* decrypt_instruction(code, position) is called.
Decrypt(code, position) ==
  /\ call' = [fn |-> "decrypt_instruction", code |-> code, position |-> position,
              ret |-> decrypt_instruction(code, position)]
  /\ UNCHANGED vm_vars

\* Each behaviour starts with one call; the test comes first, so that the
\* arguments are enumerated only where a call can be made.
DecryptAny ==
  /\ call.fn = "none"
  /\ \E code \in Codes, position \in Positions : Decrypt(code, position)

\* The addresses and values handed to a SafeMemory object directly.
Addrs == {-1, 0, 1, SIZE - 1, SIZE}

Values == {Tryte(1), Tryte(MAX_VALUE)}

\* What the preceding call on the object was.
LastOp(c) == [op |-> c.op, addr |-> c.addr, value |-> c.value]

\* SafeMemory(): an object is constructed.
MemNew ==
  /\ call.fn = "none"
  /\ call' = [fn |-> "SafeMemory", mem |-> new_memory, before |-> new_memory,
              op |-> "init", addr |-> 0, value |-> Tryte(0), ret |-> Ok("None"),
              n |-> 0, prev |-> [op |-> "none", addr |-> 0, value |-> Tryte(0)]]
  /\ UNCHANGED vm_vars

\* memory.write(addr, value) is called on the object.
MemWrite(addr, value) ==
  /\ \E w \in {write(call.mem, addr, value)} :
         call' = [call EXCEPT !.mem = w.mem, !.before = call.mem, !.op = "write",
                              !.addr = addr, !.value = value, !.ret = w.res,
                              !.n = call.n + 1, !.prev = LastOp(call)]
  /\ UNCHANGED vm_vars

\* memory.read(addr) is called on the object.
MemRead(addr) ==
  /\ call' = [call EXCEPT !.before = call.mem, !.op = "read", !.addr = addr,
                          !.value = Tryte(0), !.ret = read(call.mem, addr),
                          !.n = call.n + 1, !.prev = LastOp(call)]
  /\ UNCHANGED vm_vars

MemWriteAny ==
  /\ call.fn = "SafeMemory" /\ call.n < MaxOps
  /\ \E addr \in Addrs, value \in Values : MemWrite(addr, value)

MemReadAny ==
  /\ call.fn = "SafeMemory" /\ call.n < MaxOps
  /\ \E addr \in Addrs : MemRead(addr)

\* rotate_right(t) is called.
Rotate(t) ==
  /\ call' = [fn |-> "rotate_right", arg |-> t, prev |-> t, n |-> 1,
              ret |-> rotate_right(t)]
  /\ UNCHANGED vm_vars

RotateAny ==
  /\ call.fn = "none"
  /\ \E t \in 0..MAX_VALUE : Rotate(Tryte(t))

\* rotate_right is called on what the preceding call returned.
RotateAgain ==
  /\ call.fn = "rotate_right" /\ call.n < NTrits
  /\ call' = [call EXCEPT !.prev = call.ret, !.n = call.n + 1,
                          !.ret = rotate_right(call.ret)]
  /\ UNCHANGED vm_vars

\* The IR programs handed to the compiler: OUTPUT and HALT instructions, at
\* most MaxIR of them, the last one a HALT.
IROps ==
  {Instruction("OUTPUT", <<72>>), Instruction("OUTPUT", <<105>>),
   Instruction("OUTPUT", <<0>>), Instruction("HALT", <<>>)}

IRPrograms ==
  {ir \in UNION {[1..n -> IROps] : n \in 1..MaxIR} : ir[Len(ir)].op = "HALT"}

\* The IR program is compiled, and the prover is run on it and the text.
Prove(ir) ==
  /\ \E text \in {compile(ir).val} :
         call' = [fn |-> "prove_output_equivalence", ir |-> ir, text |-> text,
                  ret |-> prove_output_equivalence(ir, text)]
  /\ UNCHANGED vm_vars

ProveAny ==
  /\ call.fn = "none"
  /\ \E ir \in IRPrograms : Prove(ir)

UnitNext ==
  \/ DecryptAny
  \/ ProveAny
  \/ RotateAny
  \/ RotateAgain
  \/ MemNew
  \/ MemWriteAny
  \/ MemReadAny

\* No machine has been constructed: the machine's variables hold no machine.
UnitInit ==
  /\ state = "no machine"
  /\ pc = "idle"
  /\ max_cycles = 0
  /\ result = NoRes
  /\ steps = 0
  /\ hist = "new"
  /\ from_fresh = FALSE
  /\ loads = 0
  /\ program = <<>>
  /\ state0 = "no machine"
  /\ call = NoCall

UnitSpec == UnitInit /\ [][UnitNext]_vars

\* ------------------------------------------------------------------------
\* Claims
\* ------------------------------------------------------------------------

\* C1: every run(N) terminates: a run that has been entered eventually
\* returns (halted-success, fatal step error or execution-limit-exceeded).
C1_RunTerminates == (pc \in {"loop", "body", "after"}) ~> (pc = "returned")

\* C2: during a run entered on a freshly loaded machine, step is called at
\* most max_cycles times.
C2_FuelBoundsSteps == from_fresh => steps <= max_cycles

RunReturned == pc = "returned" /\ result.op = "run"
LoadReturned == pc = "returned" /\ result.op = "load"
LoadReturns == pc = "idle" /\ pc' = "returned" /\ result'.op = "load"
StepReturns == pc = "idle" /\ pc' = "returned" /\ result'.op = "step"

C3_AtReturn ==
  RunReturned =>
    /\ result.kind = "ok" =>
          state.halted /\ state.cycles < max_cycles /\ result.val = state.output
    /\ state.cycles >= max_cycles => result.kind = "limit"

\* C3: run returns success, carrying exactly the accumulated output, only if
\* halted was set with the cycle counter below max_cycles; when the cycle
\* counter has reached max_cycles it returns the execution-limit failure; and
\* returning leaves the output where get_output finds it.
C3_RunOutcome ==
  /\ []C3_AtReturn
  /\ [][pc = "after" => get_output(state') = get_output(state)]_vars

C3_Witness ==
  /\ RunReturned /\ result.kind = "limit"
  /\ ~state.halted /\ get_output(state) # <<>>

\* C4: after every successful load the accumulator, code pointer and data
\* pointer are 0, the output is empty, halted is false and cycles is 0.
C4_LoadResets ==
  (LoadReturned /\ result.kind = "ok") =>
    /\ state.a = 0 /\ state.c = 0 /\ state.d = 0
    /\ state.output = <<>>
    /\ ~state.halted
    /\ state.cycles = 0

\* C5: a load that returns a validation failure leaves every memory cell and
\* every register as they were before the call.
C5_LoadFailsAtomically ==
  [][(LoadReturns /\ result'.kind # "ok") => state' = state]_vars

\* C6: a text whose stripped length exceeds SIZE fails as too large, whatever
\* its characters; a text within the limit holding a character outside
\* [33,126] fails as an invalid character, reporting the index in the stripped
\* text of the first such character.
C6_LoadValidation ==
  LoadReturned =>
    LET code == strip(program)
    IN  /\ Len(code) > SIZE => result.kind = "too_large"
        /\ (Len(code) <= SIZE /\ \E i \in 1..Len(code) : code[i] \notin 33..126) =>
             /\ result.kind = "invalid_char"
             /\ code[result.pos + 1] \notin 33..126
             /\ result.val = <<code[result.pos + 1]>>
             /\ \A j \in 1..result.pos : code[j] \in 33..126

C6_Witness ==
  /\ LoadReturned /\ result.kind = "invalid_char"
  /\ result.pos > 0
  /\ program[result.pos + 1] # result.val[1]

\* C7 (as claimed): after a successful load of a text of stripped length L,
\* cell i holds the i-th character for i < L, and for i in L..SIZE-1 cell i is
\* crazy of cells i-1 and i-2 of the loaded memory, addresses wrapping.
C7_FillRecurrence ==
  (LoadReturned /\ result.kind = "ok") =>
    LET code == strip(program)
        m == state.memory
    IN  /\ \A i \in 0..(Len(code) - 1) : m[i] = code[i + 1]
        /\ \A i \in Len(code)..(SIZE - 1) :
             m[i] = crazy(m[(i - 1) % SIZE], m[(i - 2) % SIZE])

\* C7 (amended): as above, except that an operand at an address below 0 is the
\* value the wrapped cell held before the load.
C7_FillRecurrenceAmended ==
  [][(LoadReturns /\ result'.kind = "ok") =>
       \A code \in {strip(program')} :
         LET m == state'.memory
             operand(j) == IF j < 0 THEN state.memory[j % SIZE] ELSE m[j]
         IN  /\ \A i \in 0..(Len(code) - 1) : m[i] = code[i + 1]
             /\ \A i \in Len(code)..(SIZE - 1) :
                  \A x \in {operand(i - 1)}, y \in {operand(i - 2)} :
                    m[i] = crazy(x, y)]_vars

C7_Witness ==
  /\ LoadReturned /\ result.kind = "ok"
  /\ Len(strip(program)) < 2
  /\ state.memory[SIZE - 1] # 0

\* The next step decodes halt: the machine is running and the cell at the
\* code pointer is the halt symbol for that position.
HaltDecoded(s) ==
  /\ ~s.halted
  /\ s.memory[s.c] \in 33..126
  /\ (s.memory[s.c] - 33 + s.c) % 94 = 6

C8_HaltStep ==
  /\ (pc = "body" /\ HaltDecoded(state)) =>
       state' = [state EXCEPT !.halted = TRUE] /\ pc' = "after"
  /\ (StepReturns /\ HaltDecoded(state)) =>
       state' = [state EXCEPT !.halted = TRUE] /\ result'.kind = "halted"

C8_HaltAtZero ==
  (RunReturned /\ from_fresh /\ max_cycles >= 1 /\ state0.c = 0
     /\ HaltDecoded(state0)) =>
    result.kind = "ok" /\ result.val = <<>> /\ state.cycles = 0

\* C8: a step that decodes halt sets halted, reports halted and changes
\* nothing else; so a freshly loaded program with halt at position 0, run with
\* fuel >= 1, returns success with empty output and cycle count 0.
C8_Halt == []C8_HaltAtZero /\ [][C8_HaltStep]_vars

C8_Witness ==
  /\ RunReturned /\ from_fresh /\ max_cycles >= 1
  /\ state0.c = 0 /\ HaltDecoded(state0)
  /\ result.kind = "ok"

\* C9: run(0) on a machine that has not halted calls step not once, returns
\* the execution-limit failure and leaves the whole machine state unchanged.
C9_RunZero ==
  (RunReturned /\ max_cycles = 0 /\ ~state0.halted) =>
    result.kind = "limit" /\ steps = 0 /\ state = state0

C9_Witness ==
  /\ RunReturned /\ max_cycles = 0 /\ ~state0.halted
  /\ state0.output # <<>>

\* The next step is fatal: the machine is running and the cell at the code
\* pointer holds a value outside [33,126].
FatalFetch(s) == ~s.halted /\ s.memory[s.c] \notin 33..126

C10_FatalStep ==
  /\ pc = "body" =>
       /\ FatalFetch(state) <=> (pc' = "returned" /\ result'.kind = "exec_error")
       /\ FatalFetch(state) => state' = state /\ result'.pos = state.cycles
  /\ StepReturns =>
       /\ FatalFetch(state) <=> result'.kind = "error"
       /\ FatalFetch(state) => state' = state

\* C10: a step is fatal exactly when the fetched value is outside [33,126];
\* a fatal step changes no component of the machine state, and run stops at
\* once, reporting the cycle count.
C10_FatalStepFrame == [][C10_FatalStep]_vars

C10_Witness ==
  /\ RunReturned /\ result.kind = "exec_error"
  /\ state.output # <<>> /\ result.pos > 0

\* The table of the eight opcodes, in the order of their codes 0..7.
OpcodeTable == <<"j", "i", "*", "p", "<", "/", "v", "o">>

C12_CheckedAccess ==
  (call.fn = "SafeMemory" /\ call.op \in {"read", "write"}) =>
    LET addr == call.addr
        inside == 0 <= addr /\ addr <= SIZE - 1
    IN  /\ DOMAIN call.mem = 0..(SIZE - 1)
        /\ (~inside /\ call.op = "read") =>
             call.ret = Err("Memory read out of bounds") /\ call.mem = call.before
        /\ (~inside /\ call.op = "write") =>
             call.ret = Err("Memory write out of bounds") /\ call.mem = call.before
        /\ (inside /\ call.op = "write") =>
             /\ call.ret.ok
             /\ \A i \in 0..(SIZE - 1) :
                  call.mem[i] = IF i = addr THEN call.value ELSE call.before[i]
        /\ (inside /\ call.op = "read") =>
             /\ call.ret = Ok(call.before[addr])
             /\ call.mem = call.before
             /\ (call.prev.op = "write" /\ call.prev.addr = addr) =>
                  call.ret = Ok(call.prev.value)

C12_Witness ==
  /\ call.fn = "SafeMemory" /\ call.op = "read" /\ call.n = MaxOps
  /\ call.prev.op = "write" /\ call.prev.addr = call.addr
  /\ call.addr = SIZE - 1 /\ call.ret = Ok(Tryte(MAX_VALUE))
  /\ call.mem[0] = Tryte(1)

StepTaken == pc = "body" \/ StepReturns

\* The opcode a step on s decodes, "none" when the machine has halted or the
\* fetched value is outside [33,126], "nop" when the code is outside the table.
Opcode(s) ==
  IF s.halted \/ s.memory[s.c] \notin 33..126 THEN "none"
  ELSE LET k == (s.memory[s.c] - 33 + s.c) % 94
       IN  IF k < 8 THEN OpcodeTable[k + 1] ELSE "nop"

C14_Step ==
  StepTaken =>
    /\ Len(state'.output) >= Len(state.output)
    /\ SubSeq(state'.output, 1, Len(state.output)) = state.output
    /\ Opcode(state) = "<" => state'.output = Append(state.output, state.a % 256)
    /\ Opcode(state) # "<" => state'.output = state.output

\* C14: a step only appends to the output: the output before it is a prefix
\* of the output after it; it appends one character, of code (accumulator
\* before the step) mod 256, exactly when the decoded opcode is output, and
\* leaves the output as it is for every other opcode.
C14_OutputAppendOnly == [][C14_Step]_vars

C14_Witness ==
  /\ pc = "loop" /\ state.a > 255
  /\ Len(state.output) = 1
  /\ state.output[1] = state.a % 256

\* Trit i (0 the least significant) of the value v.
TritOf(v, i) == (v \div (3 ^ i)) % 3

\* C15: one rotate_right maps the trits [t0 .. t(N-1)], least significant
\* first, to [t(N-1), t0, .., t(N-2)], and applying it N times in succession
\* to a Tryte t returns t, N being the number of trits of a Tryte (10 in the
\* source, NTrits here).
C15_RotateCycle ==
  call.fn = "rotate_right" =>
    /\ call.ret \in 0..MAX_VALUE
    /\ TritOf(call.ret, 0) = TritOf(call.prev, NTrits - 1)
    /\ \A i \in 1..(NTrits - 1) : TritOf(call.ret, i) = TritOf(call.prev, i - 1)
    /\ call.n = NTrits => call.ret = call.arg

C15_Witness ==
  /\ call.fn = "rotate_right" /\ call.n = NTrits
  /\ call.ret = call.arg /\ call.prev # call.arg
  /\ call.arg > 3 ^ (NTrits - 1)

\* C16: for every IR program of OUTPUT and HALT instructions ending in HALT,
\* the compiled text, loaded into a new machine and run, produces the output
\* of the IR program: prove_output_equivalence returns success.
C16_CompilerEquivalence ==
  call.fn = "prove_output_equivalence" => call.ret = Ok(TRUE)

\* The step just called reports continue: run goes back to its loop test, a
\* direct caller receives Ok(True).
ReportsContinue ==
  /\ pc = "body" => pc' = "loop"
  /\ pc = "idle" => result'.kind = "continue"

C17_Step ==
  (StepTaken /\ Opcode(state) = "i") =>
    /\ state'.c = state.memory[state.d]
    /\ state'.d = state.d
    /\ state'.a = state.a
    /\ state'.memory = state.memory
    /\ state'.output = state.output
    /\ state'.cycles = state.cycles
    /\ state'.halted = state.halted
    /\ ReportsContinue

\* C17: a step executing 'i' sets the code pointer to the value of the cell
\* at the data pointer and applies no trailing increment: data pointer,
\* accumulator, memory, output and cycle counter are unchanged, and the step
\* reports continue.
C17_JumpCode == [][C17_Step]_vars

C17_Witness ==
  /\ pc = "loop" /\ steps = 1
  /\ Opcode(state0) = "i"
  /\ state.c = state0.memory[state0.d] /\ state.c # state0.c + 1
  /\ state.cycles = state0.cycles

C18_Step ==
  (StepTaken /\ Opcode(state) \in {"j", "*", "p", "<", "/", "o", "nop"}) =>
    LET op == Opcode(state)
        d1 == IF op = "j" THEN state.memory[state.d] ELSE state.d
    IN  /\ state'.cycles = state.cycles + 1
        /\ state'.c = (state.c + 1) % SIZE
        /\ state'.d = (d1 + 1) % SIZE
        /\ ReportsContinue
        /\ op \in {"/", "o", "nop"} =>
             /\ state'.a = state.a
             /\ state'.memory = state.memory
             /\ state'.output = state.output
             /\ state'.halted = state.halted

\* C18: every non-fatal step whose opcode is neither halt nor 'i' adds 1 to
\* the cycle counter, sets the code pointer to (old c + 1) mod SIZE and the
\* data pointer to (d1 + 1) mod SIZE, d1 being the cell read at the old data
\* pointer for 'j' and the old data pointer otherwise, so that a pointer at
\* SIZE - 1 wraps to 0; the no-op, the input and a code outside the table
\* change nothing else.
C18_TrailingIncrement == [][C18_Step]_vars

C18_Witness ==
  /\ pc = "loop" /\ max_cycles = LongFuel
  /\ state.cycles = SIZE
  /\ state.c = 0 /\ state.d = state0.memory[3] - 3

C19_Step ==
  (StepTaken /\ Opcode(state) \in {"*", "p"}) =>
    LET d == state.d
        v == IF Opcode(state) = "*" THEN rotate_right(state.memory[d])
             ELSE crazy(state.memory[d], state.a)
    IN  /\ state'.memory[d] = v
        /\ state'.a = v
        /\ \A i \in 0..(SIZE - 1) : i # d => state'.memory[i] = state.memory[i]

\* C19: after a step executing '*' or 'p' with the data pointer at d, the
\* cell at d and the accumulator hold the same value: rotate_right(old cell)
\* for '*', crazy(old cell, old accumulator) for 'p', the cell being the
\* first operand; every other cell is unchanged.
C19_RotateCrazy == [][C19_Step]_vars

C19_Witness ==
  /\ pc = "loop" /\ steps = 2 /\ state.d = 2
  /\ Opcode(state0) = "*"
  /\ state.a = state.memory[1]
  /\ state.a = crazy(state0.memory[1], rotate_right(state0.memory[0]))
  /\ state.a # crazy(rotate_right(state0.memory[0]), state0.memory[1])

\* The step just called reports halted: run leaves its loop, a direct caller
\* receives Ok(False).
ReportsHalted ==
  /\ pc = "body" => pc' = "after"
  /\ pc = "idle" => result'.kind = "halted"

C20_Step ==
  /\ (~state.halted /\ state'.halted) => (StepTaken /\ Opcode(state) = "v")
  /\ (StepTaken /\ state.halted) => (state' = state /\ ReportsHalted)

\* C20: halted becomes true only in a step whose decoded opcode is halt; once
\* it is true, every later step reports halted and changes no component of
\* the machine state.
C20_HaltedAbsorbing == [][C20_Step]_vars

C20_Witness ==
  /\ RunReturned /\ state0.halted /\ steps = 1
  /\ state = state0 /\ state.output # <<>>
  /\ result.kind = "ok"
\* The registers and every cell are Tryte values, the memory has SIZE cells,
\* the cycle counter is a natural number.
C21_State ==
  /\ state.a \in 0..MAX_VALUE
  /\ state.c \in 0..MAX_VALUE
  /\ state.d \in 0..MAX_VALUE
  /\ state.memory \in [0..(SIZE - 1) -> 0..MAX_VALUE]
  /\ state.cycles \in Nat

\* C21: in every state the machine reaches by load, step and run calls, the
\* accumulator, both pointers and every memory cell are in [0, MAX_VALUE]
\* ([0, 59048] in the source's width), the memory has exactly SIZE cells, and
\* the cycle counter is non-negative; no step decreases the cycle counter.
C21_ValueRanges ==
  /\ []C21_State
  /\ [][StepTaken => state'.cycles >= state.cycles]_vars

C21_Witness ==
  /\ pc = "loop" /\ max_cycles = LongFuel
  /\ state.d = 0 /\ state.c = SIZE - (state0.memory[3] - 3)
  /\ state.cycles = state.c

\* C22: the checked reads a step performs, at the code pointer and at the
\* data pointer, never fail: both pointers are addresses of the memory in
\* every reachable state; so no call of step or run returns the
\* failed-to-fetch error, and a fatal error returned is the decode failure.
C22_ReadsNeverFail ==
  /\ 0 <= state.c /\ state.c < SIZE
  /\ 0 <= state.d /\ state.d < SIZE
  /\ (pc = "returned" /\ result.kind \in {"error", "exec_error"}) =>
       /\ result.msg # "Failed to fetch instruction"
       /\ result.msg = "Failed to decrypt"

C22_Witness ==
  /\ RunReturned /\ result.kind = "exec_error"
  /\ result.msg = "Failed to decrypt"
  /\ state.a # 0 /\ state.d # state.c

\* C23: the memory after a successful load is a function of the text alone:
\* whatever the machine did before (other loads, steps, runs), every cell
\* equals the cell a new machine has after loading the same text.
C23_LoadMemoryOfTextAlone ==
  (LoadReturned /\ result.kind = "ok") =>
    state.memory = load(new_state, program).state.memory

====
